---- MODULE Spec2Model ----
(***************************************************************************)
(* Status synchronisation and control relay of the Gemini FX Autopilot     *)
(* dashboard: the three relay route handlers (app/api/status, control and  *)
(* config) and the client-side status store of app/page.tsx.               *)
(*                                                                         *)
(* Units.  Fractions (riskPerTrade, maxDailyDrawdown) are counted in basis *)
(* points (0.01 = 100), money in cents and time in seconds, so that every  *)
(* number of the program is an integer here.                               *)
(***************************************************************************)
EXTENDS Integers, Sequences, FiniteSets, TLC

(***************************************************************************)
(* JavaScript / JSON values.  Every value carries the same four fields so  *)
(* that any two values can be compared: t is the kind of the value, n its  *)
(* number, s its text and a its elements.  NaN is a number without a JSON  *)
(* form.  A document is what a body holds: an object (a function from its  *)
(* field names to values), a bare value, or text that is not JSON.         *)
(***************************************************************************)
JNull == [t |-> "null", n |-> 0, s |-> "", a |-> <<>>]

JUndefined == [t |-> "undefined", n |-> 0, s |-> "", a |-> <<>>]

JNaN == [t |-> "number", n |-> 0, s |-> "NaN", a |-> <<>>]

JNum(k) == [t |-> "number", n |-> k, s |-> "", a |-> <<>>]

JStr(x) == [t |-> "string", n |-> 0, s |-> x, a |-> <<>>]

JBool(b) == [t |-> "boolean", n |-> IF b THEN 1 ELSE 0, s |-> "", a |-> <<>>]

JArr(xs) == [t |-> "array", n |-> 0, s |-> "", a |-> xs]

\* An ISO timestamp string; n is the instant it denotes, in seconds.
JTime(sec) == [t |-> "string", n |-> sec, s |-> "iso8601", a |-> <<>>]

\* JavaScript's typeof.
TypeOf(v) == IF v.t \in {"null", "array"} THEN "object" ELSE v.t

JObject(fn) == [k |-> "object", v |-> JNull, f |-> fn]

JValue(val) == [k |-> "value", v |-> val, f |-> <<>>]

Unparsable == [k |-> "unparsable", v |-> JNull, f |-> <<>>]

\* body?.field and the destructuring of (body ?? {}): undefined on null, on a
\* primitive, on an array and on an object without the field.
Prop(doc, field) ==
    IF doc.k = "object" /\ field \in DOMAIN doc.f THEN doc.f[field] ELSE JUndefined

\* JSON.stringify of one value: NaN and undefined have no JSON form and are
\* written as null (inside an array or as an object's value they are null or
\* dropped, see JsonSerialize).
JsonValue(v) == IF v = JNaN \/ v.t = "undefined" THEN JNull ELSE v

\* JSON.stringify followed by the receiver's JSON parse: an object loses the
\* fields whose value is undefined, and NaN arrives as null.
JsonSerialize(doc) ==
    IF doc.k = "object"
    THEN JObject([x \in {y \in DOMAIN doc.f : doc.f[y].t # "undefined"} |->
                    JsonValue(doc.f[x])])
    ELSE IF doc.k = "value" THEN JValue(JsonValue(doc.v)) ELSE doc

(***************************************************************************)
(* BotStatus                                                               *)
(***************************************************************************)
Fields ==
    {"running", "lastHeartbeat", "activeSymbol", "openPositions",
     "accountBalance", "accountEquity", "todayPnL", "riskPerTrade",
     "maxConcurrentTrades", "maxDailyDrawdown", "recentSignals", "notes"}

RiskFields == {"riskPerTrade", "maxConcurrentTrades", "maxDailyDrawdown"}

DEFAULT_STATUS ==
    [x \in Fields |->
        CASE x = "running" -> JBool(FALSE)
          [] x = "lastHeartbeat" -> JNull
          [] x = "activeSymbol" -> JNull
          [] x = "openPositions" -> JNum(0)
          [] x = "accountBalance" -> JNum(0)
          [] x = "accountEquity" -> JNum(0)
          [] x = "todayPnL" -> JNum(0)
          [] x = "riskPerTrade" -> JNum(100)
          [] x = "maxConcurrentTrades" -> JNum(3)
          [] x = "maxDailyDrawdown" -> JNum(300)
          [] x = "recentSignals" -> JArr(<<>>)
          [] x = "notes" -> JArr(<<>>)]

\* The declared type of each field of BotStatus.
WellTyped(x, v) ==
    CASE x = "running" -> v.t = "boolean"
      [] x \in {"lastHeartbeat", "activeSymbol"} -> v.t \in {"string", "null"}
      [] x \in {"recentSignals", "notes"} -> v.t = "array"
      [] OTHER -> v.t = "number"

(***************************************************************************)
(* The agent behind AgentClient (lib/agentClient and the bot's HTTP API).  *)
(* It holds the run state and the risk limits; a status reply shows both.  *)
(***************************************************************************)
AgentRisk(rpt, mct, mdd) ==
    [riskPerTrade |-> JNum(rpt), maxConcurrentTrades |-> JNum(mct),
     maxDailyDrawdown |-> JNum(mdd)]

\* The risk limits the agent starts with and the ones an operator may set.
AgentRisks == {AgentRisk(100, 3, 300), AgentRisk(200, 5, 400)}

AgentStates == [running : BOOLEAN, risk : AgentRisks]

AgentInit == [running |-> FALSE, risk |-> AgentRisk(100, 3, 300)]

\* GET /status of the agent: the BotStatus it reports in state ag.
AgentView(ag) ==
    JObject([x \in Fields |->
        CASE x = "running" -> JBool(ag.running)
          [] x = "lastHeartbeat" -> JTime(0)
          [] x = "activeSymbol" -> IF ag.running THEN JStr("EURUSD") ELSE JNull
          [] x = "openPositions" -> JNum(IF ag.running THEN 1 ELSE 0)
          [] x = "accountBalance" -> JNum(1000000)
          [] x = "accountEquity" -> JNum(1000250)
          [] x = "todayPnL" -> JNum(-250)
          [] x \in RiskFields -> ag.risk[x]
          [] x = "recentSignals" -> JArr(<<"sig-1">>)
          [] x = "notes" -> JArr(<<"note-1">>)])

\* What a call of AgentClient can throw: an Error with a message, an Error
\* built without one, or a value that is no Error at all.
ThrownValues ==
    {[isError |-> TRUE, message |-> "Agent responded with 500"],
     [isError |-> TRUE, message |-> ""],
     [isError |-> FALSE, message |-> "rejected"]}

NoThrow == [isError |-> FALSE, message |-> ""]

NoDoc == JValue(JUndefined)

\* The outcome of one call of AgentClient.
Returned(v) == [kind |-> "returned", value |-> v, err |-> NoThrow]

Threw(e) == [kind |-> "threw", value |-> NoDoc, err |-> e]

NoOutcome == [kind |-> "none", value |-> NoDoc, err |-> NoThrow]

AgentOutcomes ==
    {Returned(AgentView(ag)) : ag \in AgentStates} \cup {Threw(e) : e \in ThrownValues}

(***************************************************************************)
(* The relay route handlers.                                               *)
(***************************************************************************)
NoResponse == [status |-> 0, body |-> NoDoc]

\* NextResponse.json(value, {status}).
NextResponseJson(doc, code) == [status |-> code, body |-> JsonSerialize(doc)]

ErrorEnvelope(msg) == JObject([x \in {"error"} |-> JStr(msg)])

\* error instanceof Error ? error.message : fallback
CatchMessage(e, fallback) == IF e.isError THEN e.message ELSE fallback

\* A handler without its catch block: the exception leaves it and the
\* framework answers 500 with no body.
CatchResponse_Uncaught(e, fallback) == [status |-> 500, body |-> NoDoc]

\* The catch block of a handler.
CatchResponse(e, fallback) ==
    NextResponseJson(ErrorEnvelope(CatchMessage(e, fallback)), 502)

\* request.json() of a body that is no JSON rejects with a SyntaxError.
JsonSyntaxError == [isError |-> TRUE, message |-> "Unexpected token in JSON"]

\* A test that takes any string for an action.
ActionValid_AnyString(action) == action.t = "string"

\* ["start", "stop", "refresh"].includes(action)
ActionValid(action) ==
    action.t = "string" /\ action.s \in {"start", "stop", "refresh"}

\* The typeof tests joined by && where the handler has ||.
RiskPayloadValid_AnyNumber(body) ==
    \E x \in RiskFields : TypeOf(Prop(body, x)) = "number"

\* The three typeof tests of the config handler.
RiskPayloadValid(body) ==
    \A x \in RiskFields : TypeOf(Prop(body, x)) = "number"

\* The argument the config handler hands to updateRiskControls.
RiskPayload(body) == JObject([x \in RiskFields |-> Prop(body, x)])

VARIABLES
    rEndpoint,  \* relay: the route of the request being handled
    rBody,      \* relay: the body of that request
    rpc,        \* relay: where the handler stands
    rCalls,     \* relay: calls of each AgentClient operation for this request
    rArg,       \* relay: the argument of the AgentClient call
    rAgent,     \* relay: how the AgentClient call ended
    rResp,      \* relay: the response the handler returned
    status,     \* store: the snapshot (useState, page.tsx:43)
    loading,    \* store: page.tsx:44
    error,      \* store: page.tsx:45
    saving,     \* store: page.tsx:46
    effect,     \* store: the life of the effect of page.tsx:56
    mounted,    \* store: the flag of page.tsx:57
    interval,   \* store: whether the timer of page.tsx:78 is set
    reqs,       \* store: the requests issued so far, in issue order
    agent,      \* the state of the agent the requests reach
    configApplied, \* history: a config command's response has been applied
    now,        \* the clock Date.now() reads, in whole seconds since mounting
    heartbeatAge, \* store: the label memoised at page.tsx:48
    memoDep,    \* store: the dependency the label was last computed for
    lastOk      \* history: the successful response that completed last

relayVars == <<rEndpoint, rBody, rpc, rCalls, rArg, rAgent, rResp>>

memo == <<heartbeatAge, memoDep>>

storeVars ==
    <<status, loading, error, saving, effect, mounted, interval, reqs, agent,
      configApplied, now, memo, lastOk>>

vars == <<relayVars, storeVars>>

AgentOps == {"fetchBotStatus", "sendControlCommand", "updateRiskControls"}

NoCalls == [op \in AgentOps |-> 0]

TotalCalls == rCalls["fetchBotStatus"] + rCalls["sendControlCommand"]
                + rCalls["updateRiskControls"]

\* Request bodies an operator (or anything else on the network) may send.
ActionValues ==
    {JStr("start"), JStr("stop"), JStr("refresh"), JStr("explode"),
     JStr("START"), JStr(""), JNull, JNum(1), JBool(TRUE), JArr(<<"start">>)}

ControlBodies ==
    {Unparsable, JValue(JNull), JValue(JNum(1)), JValue(JStr("start")),
     JValue(JArr(<<"start">>)), JObject(<<>>)}
      \cup {JObject([x \in {"action"} |-> a]) : a \in ActionValues}
      \cup {JObject([x \in {"action", "force"} |-> IF x = "action" THEN a ELSE JBool(TRUE)]) :
              a \in {JStr("stop"), JStr("explode")}}

ConfigValues == {JNum(200), JNum(5), JNull, JStr("2"), JUndefined}

\* JUndefined stands for a field the body does not have.
ConfigBodies ==
    {Unparsable, JValue(JNull), JValue(JNum(1)), JValue(JStr("0.02")),
     JValue(JArr(<<"0.02">>))}
      \cup {JsonSerialize(JObject(fn)) : fn \in [RiskFields -> ConfigValues]}

RelayRequests ==
    {<<"status", NoDoc>>} \cup {<<"control", b>> : b \in ControlBodies}
      \cup {<<"config", b>> : b \in ConfigBodies}

RelayInit ==
    /\ rEndpoint = "none"
    /\ rBody = NoDoc
    /\ rpc = "idle"
    /\ rCalls = NoCalls
    /\ rArg = NoDoc
    /\ rAgent = NoOutcome
    /\ rResp = NoResponse

\* A request reaches a route; each request is handled on its own.
Receive(ep, body) ==
    /\ rpc \in {"idle", "done"}
    /\ rEndpoint' = ep
    /\ rBody' = body
    /\ rpc' = "received"
    /\ rCalls' = NoCalls
    /\ rArg' = NoDoc
    /\ rAgent' = NoOutcome
    /\ rResp' = NoResponse
    /\ UNCHANGED storeVars

\* The handler returns a response.
Respond(resp) ==
    /\ rResp' = resp
    /\ rpc' = "done"
    /\ UNCHANGED <<rEndpoint, rBody>>

\* The handler calls an AgentClient operation and awaits it.
CallAgent(op, arg) ==
    /\ rCalls' = [rCalls EXCEPT ![op] = @ + 1]
    /\ rArg' = arg
    /\ rpc' = "await"
    /\ UNCHANGED <<rEndpoint, rBody, rAgent, rResp>>

\* A relay that leaves the fields that are null out of the status it returns.
SettleResponse_Compacted(o, fallback) ==
    IF o.kind = "returned"
    THEN NextResponseJson(
           JObject([x \in {y \in DOMAIN o.value.f : o.value.f[y] # JNull} |-> o.value.f[x]]), 200)
    ELSE CatchResponse(o.err, fallback)

\* The response after the awaited call ended with outcome o: the status is
\* returned verbatim, a throw goes to the catch block.
SettleResponse(o, fallback) ==
    IF o.kind = "returned"
    THEN NextResponseJson(o.value, 200)
    ELSE CatchResponse(o.err, fallback)

Settle(o, fallback) ==
    /\ rAgent' = o
    /\ Respond(SettleResponse(o, fallback))
    /\ UNCHANGED <<rCalls, rArg>>

\* GET /api/status up to its await.
StatusGET_Begin ==
    /\ rpc = "received" /\ rEndpoint = "status"
    /\ CallAgent("fetchBotStatus", NoDoc)
    /\ UNCHANGED storeVars

StatusGET_Resume(o) ==
    /\ rpc = "await" /\ rEndpoint = "status"
    /\ Settle(o, "Failed to fetch status")
    /\ UNCHANGED storeVars

\* POST /api/control before its await: the response it returns without
\* calling the agent, or NoResponse when the action passes the test.
ControlEarly(body) ==
    IF body = Unparsable
    THEN CatchResponse(JsonSyntaxError, "Failed to relay control command")
    ELSE IF ~ActionValid(Prop(body, "action"))
    THEN NextResponseJson(ErrorEnvelope("Invalid action."), 400)
    ELSE NoResponse

\* POST /api/control up to its return or its await of sendControlCommand.
ControlPOST_Begin ==
    /\ rpc = "received" /\ rEndpoint = "control"
    /\ IF ControlEarly(rBody) # NoResponse
       THEN /\ Respond(ControlEarly(rBody))
            /\ UNCHANGED <<rCalls, rArg, rAgent>>
       ELSE CallAgent("sendControlCommand", JValue(Prop(rBody, "action")))
    /\ UNCHANGED storeVars

ControlPOST_Resume(o) ==
    /\ rpc = "await" /\ rEndpoint = "control"
    /\ Settle(o, "Failed to relay control command")
    /\ UNCHANGED storeVars

\* POST /api/config before its await: the response it returns without
\* calling the agent, or NoResponse when the three fields pass the test.
ConfigEarly(body) ==
    IF body = Unparsable
    THEN CatchResponse(JsonSyntaxError, "Failed to update risk controls")
    ELSE IF ~RiskPayloadValid(body)
    THEN NextResponseJson(ErrorEnvelope("Risk configuration payload invalid."), 400)
    ELSE NoResponse

\* POST /api/config up to its return or its await of updateRiskControls.
ConfigPOST_Begin ==
    /\ rpc = "received" /\ rEndpoint = "config"
    /\ IF ConfigEarly(rBody) # NoResponse
       THEN /\ Respond(ConfigEarly(rBody))
            /\ UNCHANGED <<rCalls, rArg, rAgent>>
       ELSE CallAgent("updateRiskControls", RiskPayload(rBody))
    /\ UNCHANGED storeVars

ConfigPOST_Resume(o) ==
    /\ rpc = "await" /\ rEndpoint = "config"
    /\ Settle(o, "Failed to update risk controls")
    /\ UNCHANGED storeVars

RelayNext ==
    \/ \E rq \in RelayRequests : Receive(rq[1], rq[2])
    \/ StatusGET_Begin
    \/ \E o \in AgentOutcomes : StatusGET_Resume(o)
    \/ ControlPOST_Begin
    \/ \E o \in AgentOutcomes : ControlPOST_Resume(o)
    \/ ConfigPOST_Begin
    \/ \E o \in AgentOutcomes : ConfigPOST_Resume(o)

(***************************************************************************)
(* The status store: the state and the handlers of Home (app/page.tsx).    *)
(* status, loading, error and saving hold what the handlers last passed to *)
(* their setters.  A request in flight keeps its place in reqs, in issue   *)
(* order, and moves from "sent" (on its way) to "replied" (fetch is about  *)
(* to settle), to "json" (response.json() is awaited) and to how it ended. *)
(* The page is mounted once and its effect cleaned up at most once.        *)
(***************************************************************************)
\* The number of requests the store issues in one run.
MaxRequests == 3

NoReply == [net |-> "none", status |-> 0, body |-> NoDoc]

\* fetch rejects (no connection): a TypeError.
FetchRejected == [net |-> "rejected", status |-> 0, body |-> NoDoc]

FetchTypeError == [isError |-> TRUE, message |-> "Failed to fetch"]

HttpReply(resp) == [net |-> "ok", status |-> resp.status, body |-> resp.body]

\* response.ok
ResponseOk(reply) == reply.status >= 200 /\ reply.status <= 299

Request(kind, body) == [kind |-> kind, phase |-> "sent", body |-> body, reply |-> NoReply]

\* A request that has run to its end keeps its place and how it ended.
Ended(r, how) == [kind |-> r.kind, phase |-> how, body |-> NoDoc, reply |-> NoReply]

EndedPhases == {"applied", "failed", "discarded"}

InFlight(i) == reqs[i].phase \notin EndedPhases

\* The route a request of the store goes to.
Route(kind) ==
    CASE kind = "poll" -> "status" [] kind = "control" -> "control" [] kind = "config" -> "config"

\* { ...DEFAULT_STATUS, ...data }: the own enumerable properties of data are
\* laid over the defaults; null, a number or a boolean has none, an array has
\* its indices.
SpreadOf(data) ==
    IF data.k = "object" THEN data.f
    ELSE IF data.k = "value" /\ data.v.t = "array"
    THEN [x \in {ToString(j - 1) : j \in 1..Len(data.v.a)} |->
            JStr(data.v.a[CHOOSE j \in 1..Len(data.v.a) : ToString(j - 1) = x])]
    ELSE <<>>

\* A merge that keeps the previous snapshot's value of a field the response
\* does not carry.
MergeOverDefault_KeepsPrevious(data) ==
    LET own == SpreadOf(data)
    IN  [x \in Fields \cup DOMAIN own |->
            IF x \in DOMAIN own THEN own[x]
            ELSE IF x \in DOMAIN status THEN status[x] ELSE DEFAULT_STATUS[x]]

MergeOverDefault(data) ==
    LET own == SpreadOf(data)
    IN  [x \in Fields \cup DOMAIN own |-> IF x \in DOMAIN own THEN own[x] ELSE DEFAULT_STATUS[x]]

\* JavaScript truthiness, as in status.running ? "stop" : "start".
Truthy(v) ==
    CASE v.t \in {"null", "undefined"} -> FALSE
      [] v.t = "boolean" -> v.n = 1
      [] v.t = "number" -> v # JNaN /\ v.n # 0
      [] v.t = "string" -> v.s # ""
      [] OTHER -> TRUE

\* new Date(value).getTime(), in milliseconds: an ISO-8601 string is its
\* instant, a number is itself, anything else is not a date (NaN).
DateMs(v) ==
    IF v.t = "string" /\ v.s = "iso8601" THEN [ok |-> TRUE, ms |-> v.n * 1000]
    ELSE IF v.t = "number" /\ v # JNaN THEN [ok |-> TRUE, ms |-> v.n]
    ELSE [ok |-> FALSE, ms |-> 0]

\* Math.round(x / y) for y > 0: the nearest integer, a half going up.
MathRound(x, y) == (2 * x + y) \div (2 * y)

LiveWindowMs == 60000

\* A label that counts the whole minutes that have elapsed.
HeartbeatLabel_Floor(lastHeartbeat, t) ==
    IF ~Truthy(lastHeartbeat) THEN "No heartbeat yet"
    ELSE LET d == DateMs(lastHeartbeat)
             diff == t * 1000 - d.ms
         IN  IF ~d.ok THEN "NaNm ago"
             ELSE IF diff < LiveWindowMs THEN "Live"
             ELSE ToString(diff \div LiveWindowMs) \o "m ago"

\* The body of the useMemo of heartbeatAge, at clock reading t (seconds).
HeartbeatLabel(lastHeartbeat, t) ==
    IF ~Truthy(lastHeartbeat) THEN "No heartbeat yet"
    ELSE LET d == DateMs(lastHeartbeat)
             diff == t * 1000 - d.ms
         IN  IF ~d.ok THEN "NaNm ago"
             ELSE IF diff < LiveWindowMs THEN "Live"
             ELSE ToString(MathRound(diff, LiveWindowMs)) \o "m ago"

\* A render after setStatus: useMemo recomputes the label only when its
\* dependency, status.lastHeartbeat, differs from the one of the last render.
Render ==
    /\ memoDep' = status'["lastHeartbeat"]
    /\ heartbeatAge' = IF status'["lastHeartbeat"] = memoDep
                       THEN heartbeatAge
                       ELSE HeartbeatLabel(status'["lastHeartbeat"], now)

NoCompletion == [id |-> 0, body |-> NoDoc]

Completion(i) == [id |-> i, body |-> reqs[i].reply.body]

\* The commands the rendered buttons offer: Refresh, and Pause or Resume.
OfferedActions == {"refresh", IF Truthy(status["running"]) THEN "stop" ELSE "start"}

\* disabled={saving} on the three buttons.
CommandEnabled == ~saving

\* What Number(form.get(...)) yields for the three inputs, in percent for the
\* two fractions.
FormInputs ==
    {[riskPerTrade |-> JNum(2), maxConcurrentTrades |-> JNum(5), maxDailyDrawdown |-> JNum(4)],
     [riskPerTrade |-> JNum(1), maxConcurrentTrades |-> JNum(3), maxDailyDrawdown |-> JNum(3)]}

\* x / 100 of a percentage, in basis points.
Div100(v) == IF v = JNaN THEN JNaN ELSE JNum(v.n * 100)

\* The body handleRiskUpdate sends.
RiskUpdateBody(form) ==
    JsonSerialize(JObject([x \in RiskFields |->
        IF x = "maxConcurrentTrades" THEN form[x] ELSE Div100(form[x])]))

ControlBody(action) == JsonSerialize(JObject([x \in {"action"} |-> JStr(action)]))

ErrorPrefix(kind) ==
    CASE kind = "poll" -> "Status" [] kind = "control" -> "Control" [] kind = "config" -> "Config"

\* new Error(`Status ${response.status}`) and its siblings.
NotOkError(kind, code) ==
    [isError |-> TRUE, message |-> ErrorPrefix(kind) \o " " \o ToString(code)]

CatchFallback(kind) ==
    CASE kind = "poll" -> "Failed to load status"
      [] kind = "control" -> "Failed to issue command"
      [] kind = "config" -> "Failed to update risk"

StoreInit ==
    /\ status = DEFAULT_STATUS
    /\ loading = TRUE
    /\ error = JNull
    /\ saving = FALSE
    /\ effect = "pending"
    /\ mounted = FALSE
    /\ interval = FALSE
    /\ reqs = <<>>
    /\ agent = AgentInit
    /\ configApplied = FALSE
    /\ now = 0
    /\ heartbeatAge = HeartbeatLabel(DEFAULT_STATUS["lastHeartbeat"], 0)
    /\ memoDep = DEFAULT_STATUS["lastHeartbeat"]
    /\ lastOk = NoCompletion

Init == RelayInit /\ StoreInit

\* What the relay answers to a request of the store before it calls the
\* agent, if anything, and the text of its catch block.
EarlyResponse(ep, body) ==
    CASE ep = "status" -> NoResponse
      [] ep = "control" -> ControlEarly(body)
      [] ep = "config" -> ConfigEarly(body)

HandlerFallback(ep) ==
    CASE ep = "status" -> "Failed to fetch status"
      [] ep = "control" -> "Failed to relay control command"
      [] ep = "config" -> "Failed to update risk controls"

\* The agent's failure as the store's requests meet it.
UpstreamError == [isError |-> TRUE, message |-> "Agent responded with 500"]

\* The agent takes a command: start and stop set the run state, refresh
\* changes nothing, a config sets the risk limits.
AgentStep(ag, ep, body) ==
    CASE ep = "status" -> ag
      [] ep = "control" ->
           [ag EXCEPT !.running =
               IF Prop(body, "action") = JStr("start") THEN TRUE
               ELSE IF Prop(body, "action") = JStr("stop") THEN FALSE ELSE @]
      [] ep = "config" -> [ag EXCEPT !.risk = [x \in RiskFields |-> Prop(body, x)]]

SetReq(i, r) == reqs' = [reqs EXCEPT ![i] = r]

\* The effect of Home: the flag, the first fetchStatus() and the timer.
UseEffect ==
    /\ effect = "pending"
    /\ effect' = "active"
    /\ mounted' = TRUE
    /\ error' = JNull
    /\ reqs' = Append(reqs, Request("poll", NoDoc))
    /\ interval' = TRUE
    /\ UNCHANGED <<status, loading, saving, agent, configApplied, relayVars,
                   now, memo, lastOk>>

\* A fetchStatus that does not clear the error before it fetches.
TimerFires_KeepsError ==
    /\ interval
    /\ Len(reqs) < MaxRequests
    /\ reqs' = Append(reqs, Request("poll", NoDoc))
    /\ UNCHANGED <<status, loading, saving, effect, mounted, interval, agent,
                   configApplied, relayVars, now, memo, lastOk, error>>

\* The timer fires: fetchStatus() up to its await of fetch.
TimerFires ==
    /\ interval
    /\ Len(reqs) < MaxRequests
    /\ error' = JNull
    /\ reqs' = Append(reqs, Request("poll", NoDoc))
    /\ UNCHANGED <<status, loading, saving, effect, mounted, interval, agent,
                   configApplied, relayVars, now, memo, lastOk>>

\* A cleanup that leaves the timer set.
Cleanup_KeepsTimer ==
    /\ effect = "active"
    /\ effect' = "cleaned"
    /\ mounted' = FALSE
    /\ UNCHANGED <<status, loading, error, saving, reqs, agent, configApplied, relayVars,
                   now, memo, lastOk, interval>>

\* The cleanup of the effect.
Cleanup ==
    /\ effect = "active"
    /\ effect' = "cleaned"
    /\ mounted' = FALSE
    /\ interval' = FALSE
    /\ UNCHANGED <<status, loading, error, saving, reqs, agent, configApplied, relayVars,
                   now, memo, lastOk>>

\* handleControl(action) up to its await of fetch.
HandleControl(action) ==
    /\ Len(reqs) < MaxRequests
    /\ saving' = TRUE
    /\ error' = JNull
    /\ reqs' = Append(reqs, Request("control", ControlBody(action)))
    /\ UNCHANGED <<status, loading, effect, mounted, interval, agent, configApplied,
                   relayVars, now, memo, lastOk>>

\* handleRiskUpdate(event) up to its await of fetch.
HandleRiskUpdate(form) ==
    /\ Len(reqs) < MaxRequests
    /\ saving' = TRUE
    /\ error' = JNull
    /\ reqs' = Append(reqs, Request("config", RiskUpdateBody(form)))
    /\ UNCHANGED <<status, loading, effect, mounted, interval, agent, configApplied,
                   relayVars, now, memo, lastOk>>

\* A click on Refresh or on Pause/Resume while the page is shown.
ClickControl(action) ==
    /\ effect = "active"
    /\ CommandEnabled
    /\ action \in OfferedActions
    /\ HandleControl(action)

\* The risk form is submitted while the page is shown.
SubmitRisk(form) ==
    /\ effect = "active"
    /\ CommandEnabled
    /\ HandleRiskUpdate(form)

\* The connection fails: fetch will reject, the relay saw nothing.
NetworkFails(i) ==
    /\ i \in DOMAIN reqs /\ reqs[i].phase = "sent"
    /\ SetReq(i, [reqs[i] EXCEPT !.phase = "replied", !.reply = FetchRejected])
    /\ UNCHANGED <<status, loading, error, saving, effect, mounted, interval, agent,
                   configApplied, relayVars, now, memo, lastOk>>

\* The relay calls the agent, which acts and reports its status.
AgentAnswers(i) ==
    /\ i \in DOMAIN reqs /\ reqs[i].phase = "sent"
    /\ EarlyResponse(Route(reqs[i].kind), reqs[i].body) = NoResponse
    /\ agent' = AgentStep(agent, Route(reqs[i].kind), reqs[i].body)
    /\ SetReq(i, [reqs[i] EXCEPT !.phase = "replied",
                    !.reply = HttpReply(SettleResponse(Returned(AgentView(agent')),
                                                       HandlerFallback(Route(reqs[i].kind))))])
    /\ UNCHANGED <<status, loading, error, saving, effect, mounted, interval,
                   configApplied, relayVars, now, memo, lastOk>>

\* The ways a reply body can depart from BotStatus: in one field x, or as a
\* whole (x is "*": an empty object, null, an array).
Malformations == {"missing", "null", "wrongType"}

WholeBodies == {"emptyObject", "bareNull", "bareArray"}

MalformChoices == (Fields \X Malformations) \cup ({"*"} \X WholeBodies)

WrongType(x) == IF WellTyped(x, JStr("n/a")) THEN JNum(7) ELSE JStr("n/a")

Malform(doc, x, m) ==
    CASE m = "missing" -> JObject([y \in DOMAIN doc.f \ {x} |-> doc.f[y]])
      [] m = "null" -> JObject([doc.f EXCEPT ![x] = JNull])
      [] m = "wrongType" -> JObject([doc.f EXCEPT ![x] = WrongType(x)])
      [] m = "emptyObject" -> JObject(<<>>)
      [] m = "bareNull" -> JValue(JNull)
      [] m = "bareArray" -> JValue(JArr(<<"note-1">>))

\* The agent acts and answers with a status that is no complete BotStatus;
\* the relay passes it on as it is.
AgentAnswersMalformed(i, x, m) ==
    /\ i \in DOMAIN reqs /\ reqs[i].phase = "sent"
    /\ EarlyResponse(Route(reqs[i].kind), reqs[i].body) = NoResponse
    /\ agent' = AgentStep(agent, Route(reqs[i].kind), reqs[i].body)
    /\ SetReq(i, [reqs[i] EXCEPT !.phase = "replied",
                    !.reply = HttpReply(SettleResponse(
                                  Returned(Malform(AgentView(agent'), x, m)),
                                  HandlerFallback(Route(reqs[i].kind))))])
    /\ UNCHANGED <<status, loading, error, saving, effect, mounted, interval,
                   configApplied, relayVars, now, memo, lastOk>>

\* Something between the page and the relay answers 200 with a body that is
\* no JSON.
NotJsonAnswer(i) ==
    /\ i \in DOMAIN reqs /\ reqs[i].phase = "sent"
    /\ SetReq(i, [reqs[i] EXCEPT !.phase = "replied",
                    !.reply = [net |-> "ok", status |-> 200, body |-> Unparsable]])
    /\ UNCHANGED <<status, loading, error, saving, effect, mounted, interval, agent,
                   configApplied, relayVars, now, memo, lastOk>>

\* The relay calls the agent, which fails or rejects the command.
AgentFails(i) ==
    /\ i \in DOMAIN reqs /\ reqs[i].phase = "sent"
    /\ EarlyResponse(Route(reqs[i].kind), reqs[i].body) = NoResponse
    /\ SetReq(i, [reqs[i] EXCEPT !.phase = "replied",
                    !.reply = HttpReply(SettleResponse(Threw(UpstreamError),
                                                       HandlerFallback(Route(reqs[i].kind))))])
    /\ UNCHANGED <<status, loading, error, saving, effect, mounted, interval, agent,
                   configApplied, relayVars, now, memo, lastOk>>

\* A catch block that blanks the view when a poll fails.
PollCatch_Blanks(i, e) ==
    /\ IF ~mounted
       THEN /\ SetReq(i, Ended(reqs[i], "discarded"))
            /\ UNCHANGED <<error, loading, status>>
       ELSE /\ error' = JStr(CatchMessage(e, CatchFallback("poll")))
            /\ loading' = FALSE
            /\ status' = DEFAULT_STATUS
            /\ SetReq(i, Ended(reqs[i], "failed"))
    /\ UNCHANGED <<saving, configApplied, memo>>

\* A catch block that leaves the loading display as it is.
PollCatch_KeepsLoading(i, e) ==
    /\ IF ~mounted
       THEN /\ SetReq(i, Ended(reqs[i], "discarded"))
            /\ UNCHANGED error
       ELSE /\ error' = JStr(CatchMessage(e, CatchFallback("poll")))
            /\ SetReq(i, Ended(reqs[i], "failed"))
    /\ UNCHANGED <<status, loading, saving, configApplied, memo>>

\* The catch block of fetchStatus.
PollCatch(i, e) ==
    /\ IF ~mounted
       THEN /\ SetReq(i, Ended(reqs[i], "discarded"))
            /\ UNCHANGED <<error, loading>>
       ELSE /\ error' = JStr(CatchMessage(e, CatchFallback("poll")))
            /\ loading' = FALSE
            /\ SetReq(i, Ended(reqs[i], "failed"))
    /\ UNCHANGED <<status, saving, configApplied, memo>>

\* A handler without its finally block: a failure leaves saving set.
CommandCatch_NoFinally(i, e) ==
    /\ error' = JStr(CatchMessage(e, CatchFallback(reqs[i].kind)))
    /\ SetReq(i, Ended(reqs[i], "failed"))
    /\ UNCHANGED <<status, loading, saving, configApplied, memo>>

\* The catch and finally blocks of handleControl and handleRiskUpdate.
CommandCatch(i, e) ==
    /\ error' = JStr(CatchMessage(e, CatchFallback(reqs[i].kind)))
    /\ saving' = FALSE
    /\ SetReq(i, Ended(reqs[i], "failed"))
    /\ UNCHANGED <<status, loading, configApplied, memo>>

\* A fetchStatus that drops the response of a poll issued before the request
\* whose response was applied last.
PollApply_DropsOlder(i, data) ==
    /\ IF mounted /\ i > lastOk.id
       THEN /\ status' = MergeOverDefault(data)
            /\ loading' = FALSE
            /\ Render
            /\ SetReq(i, Ended(reqs[i], "applied"))
       ELSE /\ SetReq(i, Ended(reqs[i], "discarded"))
            /\ UNCHANGED <<status, loading, memo>>
    /\ UNCHANGED <<error, saving, configApplied>>

\* fetchStatus after response.json(): the guarded setStatus and setLoading.
PollApply(i, data) ==
    /\ IF mounted
       THEN /\ status' = MergeOverDefault(data)
            /\ loading' = FALSE
            /\ Render
            /\ SetReq(i, Ended(reqs[i], "applied"))
       ELSE /\ SetReq(i, Ended(reqs[i], "discarded"))
            /\ UNCHANGED <<status, loading, memo>>
    /\ UNCHANGED <<error, saving, configApplied>>

\* handleControl and handleRiskUpdate after response.json(): setStatus, then
\* the finally block.
CommandApply(i, data) ==
    /\ status' = MergeOverDefault(data)
    /\ saving' = FALSE
    /\ configApplied' = (configApplied \/ reqs[i].kind = "config")
    /\ Render
    /\ SetReq(i, Ended(reqs[i], "applied"))
    /\ UNCHANGED <<error, loading>>

\* What the awaited fetch leads to: a rejection, a response that is not ok
\* (both thrown), or nothing thrown.
FetchThrows(r) ==
    IF r.reply.net = "rejected" THEN FetchTypeError
    ELSE IF ~ResponseOk(r.reply) THEN NotOkError(r.kind, r.reply.status)
    ELSE NoThrow

AwaitJson(i) == SetReq(i, [reqs[i] EXCEPT !.phase = "json"])

\* fetchStatus resumes after fetch.
FetchStatus_AfterFetch(i) ==
    /\ i \in DOMAIN reqs /\ reqs[i].kind = "poll" /\ reqs[i].phase = "replied"
    /\ IF FetchThrows(reqs[i]) # NoThrow
       THEN PollCatch(i, FetchThrows(reqs[i]))
       ELSE AwaitJson(i)
            /\ UNCHANGED <<status, loading, error, saving, configApplied, memo>>
    /\ UNCHANGED <<effect, mounted, interval, agent, relayVars, now, lastOk>>

\* fetchStatus resumes after response.json().
FetchStatus_AfterJson(i) ==
    /\ i \in DOMAIN reqs /\ reqs[i].kind = "poll" /\ reqs[i].phase = "json"
    /\ IF reqs[i].reply.body = Unparsable
       THEN PollCatch(i, JsonSyntaxError) /\ UNCHANGED lastOk
       ELSE PollApply(i, reqs[i].reply.body) /\ lastOk' = Completion(i)
    /\ UNCHANGED <<effect, mounted, interval, agent, relayVars, now>>

\* handleControl resumes after fetch.
HandleControl_AfterFetch(i) ==
    /\ i \in DOMAIN reqs /\ reqs[i].kind = "control" /\ reqs[i].phase = "replied"
    /\ IF FetchThrows(reqs[i]) # NoThrow
       THEN CommandCatch(i, FetchThrows(reqs[i]))
       ELSE AwaitJson(i)
            /\ UNCHANGED <<status, loading, error, saving, configApplied, memo>>
    /\ UNCHANGED <<effect, mounted, interval, agent, relayVars, now, lastOk>>

\* handleControl resumes after response.json().
HandleControl_AfterJson(i) ==
    /\ i \in DOMAIN reqs /\ reqs[i].kind = "control" /\ reqs[i].phase = "json"
    /\ IF reqs[i].reply.body = Unparsable
       THEN CommandCatch(i, JsonSyntaxError) /\ UNCHANGED lastOk
       ELSE CommandApply(i, reqs[i].reply.body) /\ lastOk' = Completion(i)
    /\ UNCHANGED <<effect, mounted, interval, agent, relayVars, now>>

\* handleRiskUpdate resumes after fetch.
HandleRiskUpdate_AfterFetch(i) ==
    /\ i \in DOMAIN reqs /\ reqs[i].kind = "config" /\ reqs[i].phase = "replied"
    /\ IF FetchThrows(reqs[i]) # NoThrow
       THEN CommandCatch(i, FetchThrows(reqs[i]))
       ELSE AwaitJson(i)
            /\ UNCHANGED <<status, loading, error, saving, configApplied, memo>>
    /\ UNCHANGED <<effect, mounted, interval, agent, relayVars, now, lastOk>>

\* handleRiskUpdate resumes after response.json().
HandleRiskUpdate_AfterJson(i) ==
    /\ i \in DOMAIN reqs /\ reqs[i].kind = "config" /\ reqs[i].phase = "json"
    /\ IF reqs[i].reply.body = Unparsable
       THEN CommandCatch(i, JsonSyntaxError) /\ UNCHANGED lastOk
       ELSE CommandApply(i, reqs[i].reply.body) /\ lastOk' = Completion(i)
    /\ UNCHANGED <<effect, mounted, interval, agent, relayVars, now>>

RequestIds == 1..MaxRequests

StoreNext ==
    \/ UseEffect
    \/ TimerFires
    \/ Cleanup
    \/ \E action \in {"start", "stop", "refresh"} : ClickControl(action)
    \/ \E form \in FormInputs : SubmitRisk(form)
    \/ \E i \in RequestIds : NetworkFails(i)
    \/ \E i \in RequestIds : AgentAnswers(i)
    \/ \E i \in RequestIds : AgentFails(i)
    \/ \E i \in RequestIds : FetchStatus_AfterFetch(i)
    \/ \E i \in RequestIds : FetchStatus_AfterJson(i)
    \/ \E i \in RequestIds : HandleControl_AfterFetch(i)
    \/ \E i \in RequestIds : HandleControl_AfterJson(i)
    \/ \E i \in RequestIds : HandleRiskUpdate_AfterFetch(i)
    \/ \E i \in RequestIds : HandleRiskUpdate_AfterJson(i)

(***************************************************************************)
(* The store fed with replies of any shape.  Requests go out one at a time *)
(* here, MaxDecodeRequests of them, so that every malformed body can be    *)
(* laid over every snapshot.                                               *)
(***************************************************************************)
MaxDecodeRequests == 2

Quiet == \A i \in DOMAIN reqs : ~InFlight(i)

DecodeTurn == Quiet /\ Len(reqs) < MaxDecodeRequests

DecodeNext ==
    \/ UseEffect
    \/ Cleanup
    \/ DecodeTurn /\ TimerFires
    \/ DecodeTurn /\ ClickControl("refresh")
    \/ DecodeTurn /\ \E form \in FormInputs : SubmitRisk(form)
    \/ \E i \in RequestIds : AgentAnswers(i)
    \/ \E i \in RequestIds, c \in MalformChoices : AgentAnswersMalformed(i, c[1], c[2])
    \/ \E i \in RequestIds : NotJsonAnswer(i)
    \/ \E i \in RequestIds : FetchStatus_AfterFetch(i)
    \/ \E i \in RequestIds : FetchStatus_AfterJson(i)
    \/ \E i \in RequestIds : HandleControl_AfterFetch(i)
    \/ \E i \in RequestIds : HandleControl_AfterJson(i)
    \/ \E i \in RequestIds : HandleRiskUpdate_AfterFetch(i)
    \/ \E i \in RequestIds : HandleRiskUpdate_AfterJson(i)

(***************************************************************************)
(* The store called by a caller that does not serialise its commands: a    *)
(* submit event dispatched on the form, or any call of the handlers that   *)
(* does not pass through a button carrying disabled={saving}.              *)
(***************************************************************************)
CallControl(action) ==
    /\ effect = "active"
    /\ HandleControl(action)

CallRiskUpdate(form) ==
    /\ effect = "active"
    /\ HandleRiskUpdate(form)

OverlapNext ==
    \/ UseEffect
    \/ \E action \in {"start", "stop", "refresh"} : CallControl(action)
    \/ \E form \in FormInputs : CallRiskUpdate(form)
    \/ \E i \in RequestIds : AgentAnswers(i)
    \/ \E i \in RequestIds : AgentFails(i)
    \/ \E i \in RequestIds : FetchStatus_AfterFetch(i)
    \/ \E i \in RequestIds : FetchStatus_AfterJson(i)
    \/ \E i \in RequestIds : HandleControl_AfterFetch(i)
    \/ \E i \in RequestIds : HandleControl_AfterJson(i)
    \/ \E i \in RequestIds : HandleRiskUpdate_AfterFetch(i)
    \/ \E i \in RequestIds : HandleRiskUpdate_AfterJson(i)

(***************************************************************************)
(* The store under a clock.  The effect runs at time 0, the timer fires    *)
(* every PollIntervalSeconds after it, and the agent's heartbeat stays at  *)
(* the instant it had when the page was opened.                            *)
(***************************************************************************)
PollIntervalSeconds == 15

MaxClock == 130

\* The timer set at time 0 is due: firing number Len(reqs) has not happened.
TimerDue ==
    /\ interval
    /\ Len(reqs) < MaxRequests
    /\ now = PollIntervalSeconds * Len(reqs)

\* One second passes; a firing that is due happens before the clock moves on.
Tick ==
    /\ effect # "pending"
    /\ ~TimerDue
    /\ now < MaxClock
    /\ now' = now + 1
    /\ UNCHANGED <<status, loading, error, saving, effect, mounted, interval, reqs,
                   agent, configApplied, memo, lastOk, relayVars>>

HeartbeatNext ==
    \/ UseEffect
    \/ Cleanup
    \/ Tick
    \/ TimerDue /\ TimerFires
    \/ \E i \in RequestIds : AgentAnswers(i)
    \/ \E i \in RequestIds : FetchStatus_AfterFetch(i)
    \/ \E i \in RequestIds : FetchStatus_AfterJson(i)

RelaySpec == Init /\ [][RelayNext]_vars

StoreSpec == Init /\ [][StoreNext]_vars

DecodeSpec == Init /\ [][DecodeNext]_vars

OverlapSpec == Init /\ [][OverlapNext]_vars

HeartbeatSpec == Init /\ [][HeartbeatNext]_vars

(***************************************************************************)
(* Properties of the relay handlers (RelaySpec).                           *)
(***************************************************************************)
RequestAction == Prop(rBody, "action")

InvalidActionRequest ==
    /\ rEndpoint = "control"
    /\ rBody # Unparsable
    /\ RequestAction \notin {JStr("start"), JStr("stop"), JStr("refresh")}

\* C1: a POST /api/control whose body has no action, or an action other than
\* start, stop and refresh (a null or non-object body included), is answered
\* 400 {error: "Invalid action."} and no AgentClient operation is called for it.
C1_InvalidActionIs400 ==
    InvalidActionRequest =>
        /\ TotalCalls = 0
        /\ rpc # "await"
        /\ rpc = "done" =>
             rResp = [status |-> 400,
                      body |-> JObject([x \in {"error"} |-> JStr("Invalid action.")])]

C1_Witness ==
    /\ rpc = "done" /\ rEndpoint = "control"
    /\ RequestAction = JStr("explode")
    /\ rResp.status = 400

InvalidRiskRequest ==
    /\ rEndpoint = "config"
    /\ rBody # Unparsable
    /\ \E x \in RiskFields :
         rBody.k # "object" \/ x \notin DOMAIN rBody.f \/ rBody.f[x].t # "number"

\* C2: a POST /api/config in which one of riskPerTrade, maxConcurrentTrades,
\* maxDailyDrawdown is missing or is no number (a null body included) is
\* answered 400 {error: "Risk configuration payload invalid."} and
\* updateRiskControls is not called for it.
C2_InvalidRiskIs400 ==
    InvalidRiskRequest =>
        /\ TotalCalls = 0
        /\ rpc # "await"
        /\ rpc = "done" =>
             rResp = [status |-> 400,
                      body |-> JObject([x \in {"error"} |->
                                          JStr("Risk configuration payload invalid.")])]

C2_Witness ==
    /\ rpc = "done" /\ rEndpoint = "config"
    /\ rBody.k = "object" /\ DOMAIN rBody.f = RiskFields
    /\ rBody.f["riskPerTrade"] = JNum(200)
    /\ rBody.f["maxConcurrentTrades"] = JStr("2")
    /\ rBody.f["maxDailyDrawdown"] = JNum(200)
    /\ rResp.status = 400

ResponseError == Prop(rResp.body, "error")

\* C3: on each of the three routes, when the AgentClient call throws, whatever
\* the value thrown, the response is 502 with an error field that is a
\* non-empty string, and it is never 200.
C3_ThrowIs502WithMessage ==
    (rpc = "done" /\ rAgent.kind = "threw") =>
        /\ rResp.status = 502
        /\ ResponseError.t = "string"
        /\ ResponseError.s # ""

\* C4: a route answers 502 only when its AgentClient call was made and failed;
\* a request turned down for its input, a body that cannot be parsed
\* included, is answered 400 and never 502.
C4_502OnlyForUpstream ==
    rpc = "done" =>
        /\ rResp.status = 502 => (TotalCalls = 1 /\ rAgent.kind = "threw")
        /\ rBody = Unparsable => rResp.status = 400

\* The AgentClient operation of each route.
RouteOp ==
    CASE rEndpoint = "status" -> "fetchBotStatus"
      [] rEndpoint = "control" -> "sendControlCommand"
      [] rEndpoint = "config" -> "updateRiskControls"

\* C5: when the AgentClient call returns the status v, the response is 200,
\* its body is v with no field added, removed or changed, and that call is the
\* only AgentClient call of the request.
C5_SuccessIsVerbatim ==
    (rpc = "done" /\ rAgent.kind = "returned") =>
        /\ rResp.status = 200
        /\ rResp.body = rAgent.value
        /\ TotalCalls = 1
        /\ rCalls[RouteOp] = 1

C5_Witness ==
    /\ rpc = "done" /\ rEndpoint = "control"
    /\ rAgent.kind = "returned"
    /\ rAgent.value.f["activeSymbol"] = JNull
    /\ rResp.status = 200

\* C6: every run of a handler, whatever the body and whatever the AgentClient
\* call does, ends with a response of status 200, 400 or 502 (200 or 502 on
\* GET status) whose body, unless the status is 200, is {error: message}; no
\* exception leaves the handler, and a handler that has started can go on.
C6_AlwaysAnEnvelope ==
    /\ rpc = "done" =>
         /\ rResp.status \in {200, 400, 502}
         /\ rEndpoint = "status" => rResp.status \in {200, 502}
         /\ rResp.status # 200 =>
              /\ rResp.body.k = "object"
              /\ DOMAIN rResp.body.f = {"error"}
              /\ ResponseError.t = "string"
    /\ rpc \in {"received", "await"} => ENABLED RelayNext

C6_Witness ==
    /\ rpc = "done" /\ rEndpoint = "config"
    /\ rBody = Unparsable
    /\ rResp.status = 502

(***************************************************************************)
(* Properties of the status store (StoreSpec, DecodeSpec).                 *)
(***************************************************************************)
\* The message of the failure a request in flight is about to meet.
FailureText(r) ==
    IF r.reply.net = "rejected" THEN "Failed to fetch"
    ELSE IF r.reply.status = 502
    THEN (CASE r.kind = "poll" -> "Status 502"
            [] r.kind = "control" -> "Control 502"
            [] r.kind = "config" -> "Config 502")
    ELSE "other"

\* C7: when a poll, a control command or a config command fails (the network
\* fails or the response is not ok) while the store is live, the snapshot
\* after the failure is handled is the snapshot before it, and error holds the
\* message of that failure.
C7_FailureKeepsSnapshot ==
    [][\A i \in DOMAIN reqs :
         (mounted /\ InFlight(i) /\ reqs'[i].phase = "failed") =>
             /\ status' = status
             /\ error' = JStr(FailureText(reqs[i]))]_vars

C7_Witness ==
    /\ mounted
    /\ status # DEFAULT_STATUS
    /\ error = JStr("Status 502")
    /\ \E i \in DOMAIN reqs : reqs[i].kind = "poll" /\ reqs[i].phase = "failed"
    /\ \E i \in DOMAIN reqs : reqs[i].phase = "applied"

\* C8: in every state of the store the snapshot has the twelve fields of
\* BotStatus, each defined and of its declared type, whatever JSON object a
\* successful response carries.
C8_SnapshotWellTyped ==
    \A x \in Fields :
        /\ x \in DOMAIN status
        /\ status[x].t # "undefined"
        /\ WellTyped(x, status[x])

\* C9: once the cleanup of the effect has run, the result of a request that
\* was in flight then (poll, control or config, success or failure) changes
\* none of status, loading, error and saving.
C9_NothingAfterCleanup ==
    [][effect = "cleaned" => UNCHANGED <<status, loading, error, saving>>]_vars

ConfigInFlight == \E i \in DOMAIN reqs : reqs[i].kind = "config" /\ InFlight(i)

\* C10: once the response of a config command has been applied, the risk
\* fields of the snapshot are those of the last config command the agent
\* acknowledged, under any interleaving of polls and config commands: no
\* response of a request issued earlier that arrives later puts older values
\* back.  (Stated for the states in which no config command is on its way, so
\* that an acknowledgement still travelling does not count.)
C10_RiskIsLastAcknowledged ==
    (configApplied /\ ~ConfigInFlight) =>
        \A x \in RiskFields : status[x] = agent.risk[x]

CommandInFlight(i) == reqs[i].kind \in {"control", "config"} /\ InFlight(i)

PollInFlight(i) == reqs[i].kind = "poll" /\ InFlight(i)

\* C11: whenever at least one control or config command is in flight, saving
\* is true, also when several commands overlap and one of them has completed.
C11_SavingWhileCommandInFlight ==
    (\E i \in DOMAIN reqs : CommandInFlight(i)) => saving

\* C12: at most one poll request is outstanding at any time.
C12_OnePollOutstanding ==
    Cardinality({i \in DOMAIN reqs : PollInFlight(i)}) <= 1

PollApplied(i) == reqs[i].kind = "poll" /\ reqs[i].phase = "applied"

\* C13: loading is true exactly until the first poll has completed
\* successfully; failures leave it as it was, and it never returns to true.
C13_LoadingUntilFirstSuccessfulPoll ==
    loading = ~(\E i \in DOMAIN reqs : PollApplied(i))

\* The poll has completed in the live store, with a snapshot or with an error.
PollCompleted(i) == reqs[i].kind = "poll" /\ reqs[i].phase \in {"applied", "failed"}

\* C13, amended: loading is true exactly until the first poll has completed
\* in the live store, successfully or not; commands leave it as it was, and
\* it never returns to true.
C13_LoadingUntilFirstCompletedPoll ==
    loading = ~(\E i \in DOMAIN reqs : PollCompleted(i))

\* The only poll so far has failed, and the loading display is gone.
C13_Witness ==
    /\ ~loading
    /\ \E i \in DOMAIN reqs : reqs[i].kind = "poll" /\ reqs[i].phase = "failed"
    /\ ~(\E i \in DOMAIN reqs : PollApplied(i))

\* The render in which useMemo ran the body again.
LabelRecomputed == memoDep' # memoDep

\* C14 as stated: the label is "No heartbeat yet" for a null lastHeartbeat,
\* "Live" for an age under 60 seconds, and otherwise "<m>m ago" with m the
\* number of whole minutes that have elapsed.
C14_LabelCountsElapsedMinutes ==
    /\ [](memoDep = JNull => heartbeatAge = "No heartbeat yet")
    /\ [][LabelRecomputed /\ memoDep'.s = "iso8601" =>
            LET age == now - memoDep'.n
            IN  heartbeatAge' = IF age < 60 THEN "Live"
                                ELSE ToString(age \div 60) \o "m ago"]_vars

\* C14, amended: the label is "No heartbeat yet" for a null lastHeartbeat,
\* "Live" for an age under 60 seconds, and otherwise "<m>m ago" with m the
\* elapsed minutes rounded to the nearest integer, a half minute going up.
C14_LabelRoundsElapsedMinutes ==
    /\ [](memoDep = JNull => heartbeatAge = "No heartbeat yet")
    /\ [][LabelRecomputed /\ memoDep'.s = "iso8601" =>
            LET age == now - memoDep'.n
            IN  IF age < 60 THEN heartbeatAge' = "Live"
                ELSE \E m \in 1..age :
                        /\ 60 * m - 30 <= age /\ age < 60 * m + 30
                        /\ heartbeatAge' = ToString(m) \o "m ago"]_vars

\* The label was computed for a heartbeat between 90 and 119 seconds old.
C14_Witness ==
    /\ memoDep = JTime(0)
    /\ heartbeatAge = "2m ago"
    /\ now < 120

\* A render caused by setStatus: a response has just been applied.
StatusRendered ==
    \E i \in DOMAIN reqs : reqs[i].phase = "json" /\ reqs'[i].phase = "applied"

\* C16: at every render the label is the classification of the snapshot's
\* lastHeartbeat against the clock of that render, never an earlier one's.
C16_LabelFollowsClock ==
    [][StatusRendered =>
         heartbeatAge' = HeartbeatLabel(status'["lastHeartbeat"], now')]_vars

\* Field x of the snapshot { ...DEFAULT_STATUS, ...body } as the claims put it:
\* the body's value if the body carries the field, the default otherwise.
BodyOrDefault(body, x) ==
    IF body.k = "object" /\ x \in DOMAIN body.f THEN body.f[x] ELSE DEFAULT_STATUS[x]

\* C15: while the store is live the snapshot is DEFAULT_STATUS merged with
\* the body of the successful response that completed last, whatever the
\* order in which the requests were issued.
C15_SnapshotIsLastCompleted ==
    effect # "cleaned" =>
        IF lastOk = NoCompletion THEN status = DEFAULT_STATUS
        ELSE \A x \in Fields : status[x] = BodyOrDefault(lastOk.body, x)

\* Two polls were applied, the older one last, and the snapshot shows the
\* agent stopped although a newer poll had reported it running.
C15_Witness ==
    /\ effect = "active"
    /\ \E i, j \in DOMAIN reqs : i < j /\ PollApplied(i) /\ PollApplied(j) /\ lastOk.id = i
    /\ agent.running /\ status["running"] = JBool(FALSE)

\* C17: when a successful response is applied, every field of the new
\* snapshot is the response's value if the response carries the field and
\* DEFAULT_STATUS's value otherwise, whatever the previous snapshot held;
\* recentSignals and notes are taken over whole.
C17_EveryFieldFromResponseOrDefault ==
    [][\A i \in DOMAIN reqs :
          reqs[i].phase = "json" /\ reqs'[i].phase = "applied" =>
              \A x \in Fields : status'[x] = BodyOrDefault(reqs[i].reply.body, x)]_vars

\* A second response has been applied that carries maxConcurrentTrades but no
\* lastHeartbeat: the snapshot holds the response's value for the one and the
\* default for the other.
C17_Witness ==
    /\ Len(reqs) = 2 /\ lastOk.id = 2
    /\ reqs[1].phase = "applied" /\ reqs[2].phase = "applied"
    /\ lastOk.body.k = "object"
    /\ "lastHeartbeat" \notin DOMAIN lastOk.body.f
    /\ status["lastHeartbeat"] = DEFAULT_STATUS["lastHeartbeat"]
    /\ "maxConcurrentTrades" \in DOMAIN lastOk.body.f
    /\ status["maxConcurrentTrades"] = lastOk.body.f["maxConcurrentTrades"]
    /\ status["maxConcurrentTrades"] # DEFAULT_STATUS["maxConcurrentTrades"]

\* A poll request is issued in this step.
PollIssued == Len(reqs') > Len(reqs) /\ reqs'[Len(reqs')].kind = "poll"

\* C18: a poll is issued only by the live store, once when the effect runs
\* and then at the firings of the timer, 15 seconds apart; the cleanup
\* cancels the timer, so that no poll is issued after the teardown.
C18_NoPollAfterTeardown ==
    [][/\ PollIssued =>
            /\ effect' = "active"
            /\ effect = "pending" \/ (now > 0 /\ now % 15 = 0)
       /\ effect' = "cleaned" => ~interval']_vars

\* The store was torn down before the first firing was due, and the time of
\* that firing has passed without a second poll.
C18_Witness ==
    /\ effect = "cleaned"
    /\ now > PollIntervalSeconds
    /\ Len(reqs) = 1

\* Request i ends in failure in this step.
Fails(i) == InFlight(i) /\ reqs'[i].phase = "failed"

\* A poll or a command is issued in this step.
Issued == Len(reqs') > Len(reqs)

\* C19 as stated: error holds the message of the most recent failed
\* operation; it changes only when an operation fails, and neither the issue
\* nor the success of another operation erases it.
C19_ErrorChangesOnlyOnFailure ==
    [][error' # error => \E i \in DOMAIN reqs : Fails(i)]_vars

\* C19, amended: error takes the message of an operation when that
\* operation fails, is reset to null whenever a poll or a command is issued,
\* and is left as it was by every other step, a success included.
C19_ErrorUntilNextIssue ==
    [][/\ \A i \in DOMAIN reqs : Fails(i) => error' = JStr(FailureText(reqs[i]))
       /\ Issued => error' = JNull
       /\ error' # error => Issued \/ \E i \in DOMAIN reqs : Fails(i)]_vars

\* A command has failed and a poll issued after it has erased its message,
\* while that poll is still in flight.
C19_Witness ==
    /\ error = JNull
    /\ \E i, j \in DOMAIN reqs :
          /\ i < j
          /\ reqs[i].kind \in {"control", "config"} /\ reqs[i].phase = "failed"
          /\ PollInFlight(j)
    /\ \A i \in DOMAIN reqs : reqs[i].phase # "applied"

NoCommandInFlight == \A i \in DOMAIN reqs : ~CommandInFlight(i)

\* A command's request completes in this step, with a snapshot or an error.
CommandCompletes ==
    \E i \in DOMAIN reqs : CommandInFlight(i) /\ reqs'[i].phase \in {"applied", "failed"}

\* C20: the completion of a command's request, successful or not, sets
\* saving to false, and saving is false whenever no command is in flight.
C20_SavingResetOnCompletion ==
    /\ [](NoCommandInFlight => ~saving)
    /\ [][CommandCompletes => ~saving']_vars

\* A command has failed, none is in flight, and saving is false again.
C20_Witness ==
    /\ ~saving
    /\ NoCommandInFlight
    /\ \E i \in DOMAIN reqs : reqs[i].kind \in {"control", "config"} /\ reqs[i].phase = "failed"

====
